---- MODULE Spec2Model ----
(***************************************************************************)
(* Model of the agency-data refresh pipeline of kajabi-tracker.            *)
(*                                                                         *)
(* Three programs of the repository write the persisted file               *)
(* agency-data.json:                                                       *)
(*   - scripts/fetch-tiktok-data.mjs, the signed open-API variant          *)
(*     ("signed"): fetches concurrently, merges into the persisted         *)
(*     collections, writes once;                                           *)
(*   - the internal-API rewrite of the same script (unnamed/part_003,      *)
(*     "internal"): paginates two payout categories, replaces the          *)
(*     collections, guarded against an all-empty fetch;                    *)
(*   - the operator's bookmarklet (unnamed/part_000): paginates and        *)
(*     replaces the file, unsorted.                                        *)
(*                                                                         *)
(* Dates are day numbers (0 stands for the empty string ''), the order of  *)
(* ISO-8601 date strings under localeCompare being the order of the days.  *)
(* Amounts are integers.  A JS null result is Null, a list result l is     *)
(* Some(l).                                                                *)
(***************************************************************************)
EXTENDS Integers, Sequences, FiniteSets, TLC

\* ------------------------------------------------------------------ bounds

\* Longest list of records one fetch delivers in the model.
MaxBatch == 2

\* Pages after which the modelled source stops promising more records.
MaxPages == 3

\* ------------------------------------------------------------- value sets

Days == {1, 2}

MsPerDay == 86400000

BoundedSeq(S, n) == UNION {[1..k -> S] : k \in 0..n}

Null == [isNull |-> TRUE, list |-> <<>>]

Some(l) == [isNull |-> FALSE, list |-> l]

\* JS truthiness of "x && x.length > 0" for a list-or-null result.
NonEmpty(x) == ~x.isNull /\ Len(x.list) > 0

\* ---------------------------------------------------------- pure functions

\* Identity key of a creator payout:  p.payment_id || `${p.date}-${p.amount_paid}`
CreatorKey(p) ==
    IF p.payment_id # "" THEN [id |-> p.payment_id, date |-> 0, amount |-> 0, type |-> ""]
    ELSE [id |-> "", date |-> p.date, amount |-> p.amount_paid, type |-> ""]

\* Identity key of a distribution payout:
\*   p.statement_id || `${p.date}-${p.amount_paid}-${p.type}`
DistKey(p) ==
    IF p.statement_id # "" THEN [id |-> p.statement_id, date |-> 0, amount |-> 0, type |-> ""]
    ELSE [id |-> "", date |-> p.date, amount |-> p.amount_paid, type |-> p.type]

\* seen-set filter: keep the first occurrence of each key, in order.
RECURSIVE DedupCreator(_)
DedupCreator(s) ==
    IF s = <<>> THEN <<>>
    ELSE LET front == SubSeq(s, 1, Len(s) - 1)
             last == s[Len(s)]
         IN IF \E j \in 1..Len(front) : CreatorKey(front[j]) = CreatorKey(last)
            THEN DedupCreator(front)
            ELSE Append(DedupCreator(front), last)

RECURSIVE DedupDist(_)
DedupDist(s) ==
    IF s = <<>> THEN <<>>
    ELSE LET front == SubSeq(s, 1, Len(s) - 1)
             last == s[Len(s)]
         IN IF \E j \in 1..Len(front) : DistKey(front[j]) = DistKey(last)
            THEN DedupDist(front)
            ELSE Append(DedupDist(front), last)

\* Insert x behind every record dated x.date or later: one step of a stable
\* sort under the comparator (a, b) => b.date.localeCompare(a.date).
InsertByDateDesc(t, x) ==
    LET k == Cardinality({i \in 1..Len(t) : t[i].date >= x.date})
    IN SubSeq(t, 1, k) \o <<x>> \o SubSeq(t, k + 1, Len(t))

\* list.sort((a, b) => b.date.localeCompare(a.date)), stable.
RECURSIVE SortByDateDesc(_)
SortByDateDesc(s) ==
    IF s = <<>> THEN <<>>
    ELSE InsertByDateDesc(SortByDateDesc(SubSeq(s, 1, Len(s) - 1)), s[Len(s)])

\* ------------------------------------------------------------------ state

VARIABLES
    file,           \* agency-data.json: [analytics, payouts, distribution_payouts]
    focus,          \* which part of the input space this behaviour explores
    rawBatch,       \* a batch of raw records handed to a normalizer
    normalized,     \* what the normalizer made of it
    otherRun,       \* a second run of the signed script that overlaps this one
    variant,        \* the program that is running: "none", "signed", "internal"
    env,            \* which credentials the environment supplies to the run
    pc,             \* control location of the run
    existingData,   \* main: the file as loaded at the start of the run
    done,           \* signed: the fetches of Promise.all that have settled
    settlements,    \* signed: result of fetchSettlements
    transactions,   \* signed: result of fetchTransactions
    analytics,      \* signed: result of fetchAnalytics
    v2Statements,   \* signed: result of fetchStatements
    v2Payments,     \* signed: result of fetchPayments
    chain,          \* signed fetchPayments: the responses it received, in order
    payouts,        \* signed: merged creator payouts
    distPayouts,    \* both scripts: distribution payouts to write
    creatorPayouts, \* internal: creator payouts to write
    page,           \* internal fetchAllPayouts: next page to request
    totalCount,     \* internal fetchAllPayouts: total_count last reported
    allPayouts,     \* internal fetchAllPayouts: records accumulated
    emptiness,      \* internal: how each category's fetch ended ("" = it has not)
                    \* and the last payout response that was a failure
    affiliateMetrics, \* internal: result of fetchAffiliateAnalytics
    err,            \* internal: the error caught by main's try/catch ("" = none)
    requested,      \* whether this run has issued a request to the data source
    writes,         \* writeFileSync calls made in this run
    runDate,        \* the date the run stamps on the analytics (0 = not read)
    issueCalls,     \* createExpiryIssue calls made in this run
    exitCode,       \* exit status of the run; -1 while it has not ended
    alert,          \* internal: what createExpiryIssue met and did in this run
    openIssues      \* open GitHub issues that carry the label cookie-expired

vars == <<file, focus, rawBatch, normalized, otherRun, variant, env, pc,
          existingData, done, settlements,
          transactions, analytics, v2Statements, v2Payments, chain, payouts,
          distPayouts, creatorPayouts, page, totalCount, allPayouts, emptiness,
          affiliateMetrics, err, requested, writes, runDate, issueCalls, exitCode,
          alert, openIssues>>

signedLocals == <<done, settlements, transactions, analytics, v2Statements,
                  v2Payments, chain, payouts>>

internalLocals == <<creatorPayouts, page, totalCount, allPayouts, emptiness,
                    affiliateMetrics, err, issueCalls, alert>>

NoMetrics == [affiliate_gmv |-> 0, est_commission |-> 0, orders |-> 0, gmv_refund |-> 0]

NullMetrics == [isNull |-> TRUE, val |-> NoMetrics]

\* The analytics object; 0 in a field stands for "absent".
NoAnalytics ==
    [last_updated |-> 0, affiliate_gmv |-> 0, est_commission |-> 0,
     orders |-> 0, gmv_refund |-> 0]

\* { analytics: {}, payouts: [], distribution_payouts: [] }
EmptyData ==
    [analytics |-> NoAnalytics, payouts |-> <<>>, distribution_payouts |-> <<>>]

NoEnv ==
    [appKey |-> FALSE, appSecret |-> FALSE, accessToken |-> FALSE,
     sessionCookie |-> FALSE]

Focuses == {"creator", "dist", "analytics", "race", "alert", "classify", "chain",
            "paging", "hang", "normalize", "overlap"}

\* No payout response of the run has been a failure.
NoResponse == [httpOk |-> TRUE, code |-> 0, message |-> <<>>]

\* No batch has been handed to a normalizer.
NoBatch == [by |-> "", records |-> <<>>]

NotNormalized == [threw |-> FALSE, aborted |-> FALSE, records |-> <<>>]

\* No second run is under way.
NoOtherRun ==
    [pc |-> "idle", existingData |-> EmptyData, settlements |-> Null,
     v2Statements |-> Null, v2Payments |-> Null, updatedData |-> EmptyData]

\* createExpiryIssue has not run.
NoAlert ==
    [credentials |-> FALSE, search |-> "", create |-> "", open |-> 0,
     created |-> FALSE, threw |-> FALSE]

Init ==
    /\ file = EmptyData
    /\ focus \in Focuses
    /\ rawBatch = NoBatch
    /\ normalized = NotNormalized
    /\ otherRun = NoOtherRun
    /\ variant = "none"
    /\ env = NoEnv
    /\ pc = "idle"
    /\ existingData = EmptyData
    /\ done = {}
    /\ settlements = Null
    /\ transactions = Null
    /\ analytics = NullMetrics
    /\ v2Statements = Null
    /\ v2Payments = Null
    /\ chain = <<>>
    /\ payouts = <<>>
    /\ distPayouts = <<>>
    /\ creatorPayouts = <<>>
    /\ page = 1
    /\ totalCount = 0
    /\ allPayouts = <<>>
    /\ emptiness = [dist |-> "", creator |-> "", analytics |-> "",
                    failed |-> NoResponse]
    /\ affiliateMetrics = NullMetrics
    /\ err = ""
    /\ alert = NoAlert
    /\ openIssues = 0
    /\ requested = FALSE
    /\ writes = 0
    /\ runDate = 0
    /\ issueCalls = 0
    /\ exitCode = -1

\* ------------------------------------------------- inputs of the environment

\* A behaviour explores one part of the input space (focus): the source
\* delivers several records only for the category in focus, and metrics and a
\* moving run date only under "analytics"; the other fetches fail.  Under
\* "race" every fetch delivers at most copies of one record and the
\* concurrent fetches of the signed variant settle in every order; under the
\* other focuses they settle in the order of the Promise.all array.  The
\* run has the credentials of the issue tracker only under "alert", where the
\* data source delivers no more than under "analytics".  Under "classify"
\* the failures of the payout source come with every code and message, and
\* the run's last failed response is kept for inspection; under the other
\* focuses there is one failure of each kind.  Under "chain" the three
\* endpoints of fetchPayments fail in every way and what fetchPayments
\* received is kept for inspection.  Under "paging" the payout source can
\* go on delivering pages up to the page-count ceiling of the loop and
\* beyond; under the other focuses it stops after MaxPages pages.  Under
\* "hang" a request can stay without a response.  Under "normalize" the
\* normalizers are applied to raw records on their own, and under "overlap"
\* a second run of the signed script works on the file at the same time,
\* each fetch delivering at most copies of one record.

SecPerDay == 86400

MapSeq(s, F(_)) == [i \in 1..Len(s) |-> F(s[i])]

\* settlement_list entries of /api/finance/settlements/search: one id with
\* two dates, and records without id that differ in the settlement amount.
RawSettlements ==
    IF focus = "creator"
    THEN [id : {"p1"}, settle_time : {1 * SecPerDay + 30, 2 * SecPerDay},
          settlement_amount : {5}, payout_amount : {5}]
         \cup [id : {""}, settle_time : {1 * SecPerDay + 30},
               settlement_amount : {5, 7}, payout_amount : {5}]
    ELSE IF focus \in {"race", "overlap"}
    THEN {[id |-> "p1", settle_time |-> 1 * SecPerDay + 30,
           settlement_amount |-> 5, payout_amount |-> 5]}
    ELSE {}

\* statements entries of /finance/202309/statements
RawStatements ==
    IF focus = "dist"
    THEN [id : {"s1"}, statement_time : {1 * SecPerDay + 30, 2 * SecPerDay},
          settlement_amount : {5}, payout_amount : {5},
          statement_type : {"PRODUCT_DISTRIBUTION"}]
         \cup [id : {""}, statement_time : {1 * SecPerDay + 30},
               settlement_amount : {5, 7}, payout_amount : {5},
               statement_type : {"PRODUCT_DISTRIBUTION"}]
    ELSE IF focus \in {"race", "overlap"}
    THEN {[id |-> "s1", statement_time |-> 1 * SecPerDay + 30,
           settlement_amount |-> 7, payout_amount |-> 5,
           statement_type |-> "PRODUCT_DISTRIBUTION"]}
    ELSE {}

\* payments entries of /finance/202309/payments, payouts, withdrawals
RawPayments ==
    IF focus \in {"dist", "chain"}
    THEN {[id |-> "s1", payment_time |-> 2 * SecPerDay, amount |-> 5],
          [id |-> "", payment_time |-> 1 * SecPerDay + 30, amount |-> 5]}
    ELSE IF focus \in {"race", "overlap"}
    THEN {[id |-> "s1", payment_time |-> 2 * SecPerDay, amount |-> 5]}
    ELSE {}

\* The metric fields an analytics response can carry.
Metrics ==
    IF focus = "analytics"
    THEN {[affiliate_gmv |-> 100, est_commission |-> 10, orders |-> 3, gmv_refund |-> 1],
          [affiliate_gmv |-> 200, est_commission |-> 20, orders |-> 6, gmv_refund |-> 0]}
    ELSE {}

\* Outcomes of a request whose response main does not read further.
PlainOutcomes == IF focus = "analytics" THEN {"throw", "nodata", "list"} ELSE {"throw"}

\* new Date().toISOString().split('T')[0] at a run that loaded `loaded`:
\* the clock does not run backwards.
RunDates(loaded) ==
    IF focus = "analytics"
    THEN {d \in Days : d >= loaded.analytics.last_updated}
    ELSE {1}

\* -------------------------------------------- signed variant: normalizers

\* new Date(t * 1000).toISOString().split('T')[0]
DateOfSeconds(t) == (t * 1000) \div MsPerDay

\* fetchSettlements, the map over settlement_list
NormalizeSettlement(s) ==
    [payment_id |-> s.id,
     date |-> DateOfSeconds(s.settle_time),
     settlement_amount |-> s.settlement_amount,
     amount_paid |-> IF s.payout_amount # 0 THEN s.payout_amount
                     ELSE s.settlement_amount]

\* fetchStatements, the push of one statement
NormalizeStatement(s) ==
    [statement_id |-> s.id,
     date |-> IF s.statement_time # 0 THEN DateOfSeconds(s.statement_time) ELSE 0,
     settlement_amount |-> s.settlement_amount,
     amount_paid |-> IF s.payout_amount # 0 THEN s.payout_amount
                     ELSE s.settlement_amount,
     type |-> s.statement_type,
     currency |-> "USD"]

\* fetchPayments, the map over the payments of the first endpoint that has any
NormalizePayment(p) ==
    [payment_id |-> p.id,
     date |-> IF p.payment_time # 0 THEN DateOfSeconds(p.payment_time) ELSE 0,
     amount |-> p.amount,
     status |-> "",
     type |-> "distribution",
     currency |-> "USD"]

\* ------------------------------------- the normalizers on JavaScript values

\* The values a field of a raw record can hold: undefined (the field is
\* absent), null, a number, NaN, or a string given as its characters.
JsUndefined == [t |-> "undefined", n |-> 0, s |-> <<>>]

JsNull == [t |-> "null", n |-> 0, s |-> <<>>]

NaN == [t |-> "NaN", n |-> 0, s |-> <<>>]

Num(k) == [t |-> "number", n |-> k, s |-> <<>>]

Str(chars) == [t |-> "string", n |-> 0, s |-> chars]

\* ToBoolean: undefined, null, NaN, 0 and '' are falsy.
Truthy(v) ==
    CASE v.t = "number" -> v.n # 0
      [] v.t = "string" -> v.s # <<>>
      [] OTHER -> FALSE

\* a || b
Or(a, b) == IF Truthy(a) THEN a ELSE b

IsDigit(c) == c \in {"0", "1", "2", "3", "4", "5", "6", "7", "8", "9"}

DigitValue(c) ==
    CASE c = "0" -> 0 [] c = "1" -> 1 [] c = "2" -> 2 [] c = "3" -> 3
      [] c = "4" -> 4 [] c = "5" -> 5 [] c = "6" -> 6 [] c = "7" -> 7
      [] c = "8" -> 8 [] c = "9" -> 9

\* The number written by the digits at the start of chars, after `sofar`.
RECURSIVE LeadingDigits(_, _)
LeadingDigits(chars, sofar) ==
    IF chars = <<>> \/ ~IsDigit(Head(chars)) THEN sofar
    ELSE LeadingDigits(Tail(chars), 10 * sofar + DigitValue(Head(chars)))

\* parseFloat (and parseInt) of a non-negative whole number, its decimal
\* string, or anything else: the leading digits, NaN when there are none.
ParseFloat(v) ==
    CASE v.t = "number" -> v
      [] v.t = "string" /\ v.s # <<>> /\ IsDigit(Head(v.s)) ->
             Num(LeadingDigits(v.s, 0))
      [] OTHER -> NaN

\* ToNumber, as applied by v * 1000: null and '' are 0, a string must be
\* digits throughout, undefined is NaN.
ToNumber(v) ==
    CASE v.t = "number" -> v
      [] v.t = "null" -> Num(0)
      [] v.t = "string" ->
             IF \A i \in 1..Len(v.s) : IsDigit(v.s[i])
             THEN Num(LeadingDigits(v.s, 0)) ELSE NaN
      [] OTHER -> NaN

\* v * k
Times(v, k) == IF ToNumber(v).t = "NaN" THEN NaN ELSE Num(ToNumber(v).n * k)

\* new Date(ms).toISOString() throws RangeError: Invalid time value
InvalidDate(ms) == ms.t = "NaN"

\* new Date(ms).toISOString().split('T')[0], as the day number
IsoDate(ms) == ms.n \div MsPerDay

\* fetchStatements, allStatements.push({...}) for one raw statement s:
\* whether building the object throws, and the object.  A date of 0 is ''.
PushStatement(s) ==
    LET time == IF Truthy(s.statement_time) THEN s.statement_time
                ELSE IF Truthy(s.settle_time) THEN s.settle_time
                ELSE JsUndefined
        ms == Times(time, 1000)
    IN [threw |-> Truthy(time) /\ InvalidDate(ms),
        record |->
          [statement_id |-> Or(Or(s.id, s.statement_id), Str(<<>>)),
           date |-> IF Truthy(time) /\ ~InvalidDate(ms) THEN IsoDate(ms) ELSE 0,
           settlement_amount |->
               ParseFloat(Or(Or(Or(s.settlement_amount, s.revenue_amount),
                                s.amount), Num(0))),
           amount_paid |->
               ParseFloat(Or(Or(Or(Or(s.payout_amount, s.paid_amount),
                                   s.settlement_amount), s.amount), Num(0))),
           type |-> Or(Or(s.statement_type, s.type), Str(<<"unknown">>)),
           currency |-> Or(s.currency, Str(<<"USD">>))]]

\* fetchPayments, payments.map(p => ({...})) for one raw payment p
MapPayment(p) ==
    LET time == IF Truthy(p.payment_time) THEN p.payment_time
                ELSE IF Truthy(p.create_time) THEN p.create_time
                ELSE JsUndefined
        ms == Times(time, 1000)
    IN [threw |-> Truthy(time) /\ InvalidDate(ms),
        record |->
          [payment_id |-> Or(Or(Or(p.id, p.payment_id), p.payout_id), Str(<<>>)),
           date |-> IF Truthy(time) /\ ~InvalidDate(ms) THEN IsoDate(ms) ELSE 0,
           amount |-> ParseFloat(Or(Or(Or(p.amount, p.payout_amount),
                                       p.payment_amount), Num(0))),
           status |-> Or(p.status, Str(<<>>)),
           type |-> Or(Or(p.type, p.payment_type), Str(<<"distribution">>)),
           currency |-> Or(p.currency, Str(<<"USD">>))]]

\* fetchSettlements, settlement_list.map(s => ({...})) for one raw
\* settlement s
MapSettlement(s) ==
    LET ms == Times(s.settle_time, 1000)
    IN [threw |-> InvalidDate(ms),
        record |->
          [payment_id |-> Or(Or(s.id, s.settlement_id), Str(<<>>)),
           date |-> IF InvalidDate(ms) THEN 0 ELSE IsoDate(ms),
           settlement_amount |->
               ParseFloat(Or(Or(s.settlement_amount, s.revenue), Num(0))),
           amount_paid |->
               ParseFloat(Or(Or(s.payout_amount, s.settlement_amount), Num(0)))]]

\* formatDistPayouts, rawList.map(r => ({statement_id: r.id,
\* ...formatPayout(r), ...})) for one raw payout r
MapDistPayout(r) ==
    LET ms == ParseFloat(r.payment_time)
    IN [threw |-> InvalidDate(ms),
        record |->
          [statement_id |-> r.id,
           date |-> IF InvalidDate(ms) THEN 0 ELSE IsoDate(ms),
           settlement_amount |-> ParseFloat(r.amount),
           amount_paid |-> ParseFloat(r.payment_amount),
           type |-> Str(<<"PRODUCT_DISTRIBUTION">>),
           currency |-> Str(<<"USD">>)]]

\* The normalizers of the two scripts.
Normalizers == {"statements", "payments", "settlements", "distPayouts"}

MapRecord(by, r) ==
    CASE by = "statements" -> PushStatement(r)
      [] by = "payments" -> MapPayment(r)
      [] by = "settlements" -> MapSettlement(r)
      [] by = "distPayouts" -> MapDistPayout(r)

\* What a normalizer makes of a list of raw records.  An exception in
\* fetchStatements' for loop is caught by the try around the request, and
\* the statements pushed before it stay in allStatements; one in
\* payments.map or settlement_list.map is caught by the try of the function
\* and nothing is returned from the list; one in formatDistPayouts reaches
\* main's catch, which ends the run without writing.
NormalizeBatch(by, records) ==
    LET results == [i \in 1..Len(records) |-> MapRecord(by, records[i])]
        throwing == {i \in 1..Len(records) : results[i].threw}
        before == {i \in 1..Len(records) : \A j \in throwing : i < j}
    IN [threw |-> throwing # {},
        aborted |-> by = "distPayouts" /\ throwing # {},
        records |->
            IF throwing = {} \/ by = "statements"
            THEN [i \in before |-> results[i].record]
            ELSE <<>>]

\* main: v2Statements.map(s => ({statement_id: s.statement_id, ...}))
StatementToDist(s) ==
    [statement_id |-> s.statement_id, date |-> s.date,
     settlement_amount |-> s.settlement_amount, amount_paid |-> s.amount_paid,
     type |-> s.type, currency |-> s.currency]

\* main: v2Payments.map(p => ({statement_id: p.payment_id, ...}))
PaymentToDist(p) ==
    [statement_id |-> p.payment_id, date |-> p.date,
     settlement_amount |-> p.amount, amount_paid |-> p.amount,
     type |-> IF p.type # "" THEN p.type ELSE "payment",
     currency |-> p.currency]

\* ------------------------------------------------ signed variant: the merge

\* A merge that puts the persisted records before the fetched ones, so that
\* the persisted record survives a key collision.
MergePayoutsPersistedFirst(existing, fetched) ==
    IF NonEmpty(fetched)
    THEN SortByDateDesc(DedupCreator(existing \o fetched.list))
    ELSE existing

\* A distribution merge that sorts but does not remove records with a key
\* already seen.
MergeDistNoDedup(existing, statements, payments) ==
    LET withStatements ==
            IF NonEmpty(statements)
            THEN MapSeq(statements.list, StatementToDist) \o existing
            ELSE existing
        withPayments ==
            IF NonEmpty(payments)
            THEN MapSeq(payments.list, PaymentToDist) \o withStatements
            ELSE withStatements
    IN SortByDateDesc(withPayments)

\* main, "Update creator payouts": the persisted list, or the fetched
\* settlements before it, first occurrence per key, sorted by date descending.
MergePayouts(existing, fetched) ==
    IF NonEmpty(fetched)
    THEN SortByDateDesc(DedupCreator(fetched.list \o existing))
    ELSE existing

\* A distribution merge that puts the statements before the payments.
MergeDistStatementsFirst(existing, statements, payments) ==
    LET withPayments ==
            IF NonEmpty(payments)
            THEN MapSeq(payments.list, PaymentToDist) \o existing
            ELSE existing
        withStatements ==
            IF NonEmpty(statements)
            THEN MapSeq(statements.list, StatementToDist) \o withPayments
            ELSE withPayments
    IN IF Len(withStatements) > 0
       THEN SortByDateDesc(DedupDist(withStatements))
       ELSE withStatements

\* main, "Update distribution payouts": payments, then statements, then the
\* persisted list; deduplicated and sorted whenever the result is not empty.
MergeDist(existing, statements, payments) ==
    LET withStatements ==
            IF NonEmpty(statements)
            THEN MapSeq(statements.list, StatementToDist) \o existing
            ELSE existing
        withPayments ==
            IF NonEmpty(payments)
            THEN MapSeq(payments.list, PaymentToDist) \o withStatements
            ELSE withStatements
    IN IF Len(withPayments) > 0
       THEN SortByDateDesc(DedupDist(withPayments))
       ELSE withPayments

\* An update that stamps the date only together with fetched metrics.
MergeAnalyticsDateWithMetrics(existing, fetched, today) ==
    IF ~fetched.isNull
    THEN [last_updated |-> today,
          affiliate_gmv |-> fetched.val.affiliate_gmv,
          est_commission |-> fetched.val.est_commission,
          orders |-> fetched.val.orders,
          gmv_refund |-> fetched.val.gmv_refund]
    ELSE existing

\* main, "Update analytics"
MergeAnalytics(existing, fetched, today) ==
    IF ~fetched.isNull
    THEN [last_updated |-> today,
          affiliate_gmv |-> fetched.val.affiliate_gmv,
          est_commission |-> fetched.val.est_commission,
          orders |-> fetched.val.orders,
          gmv_refund |-> fetched.val.gmv_refund]
    ELSE [existing EXCEPT !.last_updated = today]

\* ------------------------------------------------------------ exit statuses

\* process.exit(0) when a credential is missing
ExitMissingCredential == 0

\* process.exit(0) in main().catch
ExitOnFatal == 0

\* main() resolved and nothing is pending: the process ends with status 0
ExitNormal == 0

\* process.exit(0) when the guard preserves the file
ExitGuard == 0

\* A catch block that reports the failure to the shell.
ExitCaughtFailure == 0 + 1

\* process.exit(0) at the end of main's catch block
ExitCaught == 0

\* ------------------------------------------------ signed variant: actions

\* The process of a run that has exited is gone, and its variables with it;
\* the file stays.
ProcessEnds ==
    /\ pc = "exited"
    /\ pc' = "idle"
    /\ variant' = "none"
    /\ env' = NoEnv
    /\ existingData' = EmptyData
    /\ exitCode' = -1
    /\ done' = {}
    /\ settlements' = Null
    /\ transactions' = Null
    /\ analytics' = NullMetrics
    /\ v2Statements' = Null
    /\ v2Payments' = Null
    /\ chain' = <<>>
    /\ payouts' = <<>>
    /\ distPayouts' = <<>>
    /\ creatorPayouts' = <<>>
    /\ page' = 1
    /\ totalCount' = 0
    /\ allPayouts' = <<>>
    /\ emptiness' = [dist |-> "", creator |-> "", analytics |-> "",
                     failed |-> NoResponse]
    /\ affiliateMetrics' = NullMetrics
    /\ err' = ""
    /\ alert' = NoAlert
    /\ requested' = FALSE
    /\ writes' = 0
    /\ runDate' = 0
    /\ issueCalls' = 0
    /\ UNCHANGED <<file, focus, rawBatch, normalized, otherRun, openIssues>>

\* The fetches of main's Promise.all, in the order of its array.
TaskOrder == <<"settlements", "transactions", "analytics", "statements", "payments">>

Tasks == {TaskOrder[i] : i \in 1..Len(TaskOrder)}

\* A credential check that gives up only when all three values are absent.
AllCredentialsMissing(key, secret, token) == ~key /\ ~secret /\ ~token

\* main: if (!APP_KEY || !APP_SECRET || !ACCESS_TOKEN)
CredentialsMissing(key, secret, token) == ~key \/ ~secret \/ ~token

\* main, from its start to the Promise.all: the credential check and the load.
SignedStart(key, secret, token) ==
    /\ pc = "idle"
    /\ variant' = "signed"
    /\ env' = [appKey |-> key, appSecret |-> secret, accessToken |-> token,
               sessionCookie |-> FALSE]
    /\ IF CredentialsMissing(key, secret, token)
       THEN /\ pc' = "exited"
            /\ exitCode' = ExitMissingCredential
            /\ existingData' = EmptyData
       ELSE /\ pc' = "fetching"
            /\ exitCode' = -1
            /\ existingData' = file
    /\ UNCHANGED <<file, focus, rawBatch, normalized, otherRun, openIssues, signedLocals, distPayouts, internalLocals,
                   requested, writes, runDate>>

\* A pending fetch of the Promise.all settles.
SignedFetching(task) ==
    /\ variant = "signed"
    /\ pc = "fetching"
    /\ task \notin done
    /\ focus # "race" =>
         \A i \in 1..Len(TaskOrder) :
           TaskOrder[i] = task => \A j \in 1..(i - 1) : TaskOrder[j] \in done
    /\ done' = done \cup {task}

\* fetchSettlements: one request; a list in the response is normalized, a
\* thrown error or a response without settlement_list gives null.
FetchSettlements ==
    /\ SignedFetching("settlements")
    /\ \E kind \in {"throw", "nodata", "list"} :
         \E l \in BoundedSeq(RawSettlements, MaxBatch) :
           /\ kind # "list" => l = <<>>
           /\ settlements' = IF kind = "list"
                             THEN Some(MapSeq(l, NormalizeSettlement))
                             ELSE Null
    /\ requested' = TRUE
    /\ UNCHANGED <<file, focus, rawBatch, normalized, otherRun, openIssues, variant, env, pc, existingData, transactions,
                   analytics, v2Statements, v2Payments, chain, payouts, distPayouts,
                   internalLocals, writes, runDate, exitCode>>

\* fetchTransactions: one request; main never reads the list it returns.
FetchTransactions ==
    /\ SignedFetching("transactions")
    /\ \E kind \in PlainOutcomes :
         transactions' = IF kind = "list" THEN Some(<<>>) ELSE Null
    /\ requested' = TRUE
    /\ UNCHANGED <<file, focus, rawBatch, normalized, otherRun, openIssues, variant, env, pc, existingData, settlements,
                   analytics, v2Statements, v2Payments, chain, payouts, distPayouts,
                   internalLocals, writes, runDate, exitCode>>

\* fetchAnalytics: one request; the metrics of result.data, else null.
FetchAnalytics ==
    /\ SignedFetching("analytics")
    /\ \/ analytics' = NullMetrics
       \/ \E m \in Metrics : analytics' = [isNull |-> FALSE, val |-> m]
    /\ requested' = TRUE
    /\ UNCHANGED <<file, focus, rawBatch, normalized, otherRun, openIssues, variant, env, pc, existingData, settlements,
                   transactions, v2Statements, v2Payments, chain, payouts, distPayouts,
                   internalLocals, writes, runDate, exitCode>>

\* fetchStatements: five requests by statement type accumulate statements
\* (all), a sixth follows when they brought none; the first occurrence of
\* each key is kept; an empty result is null.
FetchStatements ==
    /\ SignedFetching("statements")
    /\ \E all \in BoundedSeq(RawStatements, MaxBatch) :
         LET allStatements == DedupDist(MapSeq(all, NormalizeStatement))
         IN /\ v2Statements' = IF Len(allStatements) > 0
                               THEN Some(allStatements) ELSE Null
            /\ requested' = TRUE
    /\ UNCHANGED <<file, focus, rawBatch, normalized, otherRun, openIssues, variant, env, pc, existingData, settlements,
                   transactions, analytics, v2Payments, chain, payouts, distPayouts,
                   internalLocals, writes, runDate, exitCode>>

\* fetchPayments: const endpoints = [...]
Endpoints == <<"payments", "payouts", "withdrawals">>

\* What one endpoint of fetchPayments can answer: apiRequest throws, or
\* the JSON has a data object or none, a code, and a list of payments.
PaymentResponses ==
    {[threw |-> TRUE, hasData |-> FALSE, code |-> 0, payments |-> <<>>]}
    \cup [threw : {FALSE}, hasData : {TRUE}, code : {0},
          payments : BoundedSeq(RawPayments, MaxBatch)]
    \cup (IF focus = "chain"
          THEN [threw : {FALSE}, hasData : {FALSE}, code : {0, 5},
                payments : {<<>>}]
               \cup [threw : {FALSE}, hasData : {TRUE}, code : {5},
                     payments : BoundedSeq(RawPayments, 1)]
          ELSE {})

\* What the i-th endpoint can answer: outside "chain" only the first
\* endpoint is up.
EndpointResponses(i) ==
    IF i = 1 \/ focus = "chain" THEN PaymentResponses
    ELSE {r \in PaymentResponses : r.threw}

\* An endpoint that ends the chain as soon as it answers at all.
EndpointAnswered(r) == ~r.threw

\* fetchPayments: result.data && !result.code, then payments.length > 0
ReturnsPayments(r) == ~r.threw /\ r.hasData /\ r.code = 0 /\ Len(r.payments) > 0

\* fetchPayments, for (const endpoint of endpoints) from the i-th endpoint
\* on: the responses received, up to the one that makes the function return.
RECURSIVE AskEndpoints(_, _)
AskEndpoints(i, answer) ==
    IF i > Len(Endpoints) THEN <<>>
    ELSE LET received == [endpoint |-> Endpoints[i],
                          response |-> answer[i]]
         IN IF ReturnsPayments(received.response)
            THEN <<received>>
            ELSE <<received>> \o AskEndpoints(i + 1, answer)

\* fetchPayments: return payments.map(...) inside the loop, return null
\* after it.
PaymentsResult(received) ==
    IF received # <<>> /\ ReturnsPayments(received[Len(received)].response)
    THEN Some(MapSeq(received[Len(received)].response.payments, NormalizePayment))
    ELSE Null

\* fetchPayments: the endpoints are asked in order; the payments of the
\* first one that has any are normalized; null when none has.
FetchPayments ==
    /\ SignedFetching("payments")
    /\ \E a1 \in EndpointResponses(1), a2 \in EndpointResponses(2),
          a3 \in EndpointResponses(3) :
         LET received == AskEndpoints(1, <<a1, a2, a3>>)
         IN /\ v2Payments' = PaymentsResult(received)
            /\ chain' = IF focus = "chain" THEN received ELSE <<>>
    /\ requested' = TRUE
    /\ UNCHANGED <<file, focus, rawBatch, normalized, otherRun, openIssues, variant, env, pc, existingData, settlements,
                   transactions, analytics, v2Statements, payouts, distPayouts,
                   internalLocals, writes, runDate, exitCode>>

\* A write that fails half way: the new payouts are in the file, the
\* distribution payouts are still the old ones.
WriteFileSyncTorn(old, new, written) ==
    IF written THEN new
    ELSE [analytics |-> new.analytics, payouts |-> new.payouts,
          distribution_payouts |-> old.distribution_payouts]

\* fs.writeFileSync(dataPath, JSON.stringify(updatedData, null, 2) + '\n'):
\* the file holds the new content, or the call throws and the file is as it
\* was.
WriteFileSync(old, new, written) == IF written THEN new ELSE old

\* A join that lets main go on when the first fetch has settled.
AnySettled(settled) == settled # {}

\* await Promise.all([...]): main goes on when every fetch has settled.
AllSettled(settled) == settled = Tasks

\* main after the Promise.all: merge the three parts, write the file once.
\* A write that throws is caught by main().catch.
SignedMergeAndWrite ==
    /\ variant = "signed"
    /\ pc = "fetching"
    /\ AllSettled(done)
    /\ payouts' = MergePayouts(existingData.payouts, settlements)
    /\ distPayouts' = MergeDist(existingData.distribution_payouts,
                                v2Statements, v2Payments)
    /\ writes' = writes + 1
    /\ \E today \in RunDates(existingData) : \E written \in BOOLEAN :
         /\ runDate' = today
         /\ file' = WriteFileSync(file,
                                  [analytics |-> MergeAnalytics(existingData.analytics,
                                                                analytics, today),
                                   payouts |-> payouts',
                                   distribution_payouts |-> distPayouts'],
                                  written)
         /\ exitCode' = IF written THEN ExitNormal ELSE ExitOnFatal
    /\ pc' = "exited"
    /\ UNCHANGED <<focus, rawBatch, normalized, otherRun, openIssues, variant, env, existingData, done, settlements,
                   transactions, analytics, v2Statements, v2Payments, chain,
                   internalLocals, requested>>

\* const response = await fetch(url, options) in the signed apiRequest and
\* const resp = await fetch(url, {...}) in the internal one, when the server
\* never answers: fetch is called without a signal or a timeout, the promise
\* does not settle, and the function that awaits it (under Promise.all in
\* the signed variant) does not go on.
RequestNeverAnswered ==
    /\ focus = "hang"
    /\ \/ variant = "signed" /\ pc = "fetching" /\ done # Tasks
       \/ variant = "internal" /\ pc \in {"fetchDist", "fetchCreator", "analytics"}
    /\ pc' = "hung"
    /\ requested' = TRUE
    /\ UNCHANGED <<file, focus, rawBatch, normalized, otherRun, openIssues, variant, env, existingData, signedLocals,
                   distPayouts, internalLocals, writes, runDate, exitCode>>

NextSigned ==
    \/ ProcessEnds
    \/ \E key, secret, token \in BOOLEAN : SignedStart(key, secret, token)
    \/ FetchSettlements
    \/ FetchTransactions
    \/ FetchAnalytics
    \/ FetchStatements
    \/ FetchPayments
    \/ SignedMergeAndWrite
    \/ RequestNeverAnswered

SpecSigned == Init /\ [][NextSigned]_vars

\* ------------------------------------------- internal variant: the source

\* payout_info entries of /api/v1/affiliate/partner/payout/search for one
\* partner: several in the category in focus, a single one in the other.
RawPayoutInfo(category) ==
    IF focus = category
    THEN [id : {"p1"}, payment_time : {1 * MsPerDay + 500, 2 * MsPerDay},
          amount : {5}, payment_amount : {5}]
         \cup [id : {""}, payment_time : {1 * MsPerDay + 500},
               amount : {5, 7}, payment_amount : {5}]
    ELSE {[id |-> "p1", payment_time |-> 1 * MsPerDay + 500,
           amount |-> 5, payment_amount |-> 5]}

\* String.prototype.toLowerCase, on a string given as its characters.
LowerChar(c) ==
    CASE c = "A" -> "a" [] c = "G" -> "g" [] c = "H" -> "h" [] c = "I" -> "i"
      [] c = "L" -> "l" [] c = "N" -> "n" [] c = "O" -> "o" [] c = "S" -> "s"
      [] c = "T" -> "t" [] c = "U" -> "u" [] OTHER -> c

ToLowerCase(str) == [i \in 1..Len(str) |-> LowerChar(str[i])]

\* String.prototype.includes
Includes(str, word) ==
    \E i \in 1..(Len(str) - Len(word) + 1) :
        SubSeq(str, i, i + Len(word) - 1) = word

WordLogin == <<"l", "o", "g", "i", "n">>

WordAuth == <<"a", "u", "t", "h">>

WordSession == <<"s", "e", "s", "s", "i", "o", "n">>

\* json.message values: absent (<<>>), "Login", "unAUTHed", "Session",
\* "sesion" and "ok".
Messages ==
    IF focus = "classify"
    THEN {<<>>,
          <<"L", "o", "g", "i", "n">>,
          <<"u", "n", "A", "U", "T", "H", "e", "d">>,
          <<"S", "e", "s", "s", "i", "o", "n">>,
          <<"s", "e", "s", "i", "o", "n">>,
          <<"o", "k">>}
    ELSE {<<>>, <<"L", "o", "g", "i", "n">>}

Codes ==
    IF focus = "classify" THEN {0, 5, 401, 10000, 10001, 16201010}
    ELSE {0, 5, 10000}

\* JSON codes in the body of a response with an HTTP error status.
CodesOfHttpErrors == IF focus = "classify" THEN {0, 401, 10000} ELSE {0}

\* Responses to one page request: the HTTP status, the JSON code and message,
\* and data.payout_info (null when absent) with data.total_count.
PageResponses(category, room) ==
    [httpOk : {FALSE}, code : CodesOfHttpErrors, message : {<<>>}, payout_info : {Null},
     total_count : {0}]
    \cup [httpOk : {TRUE}, code : Codes \ {0}, message : {<<>>},
          payout_info : {Null}, total_count : {0}]
    \cup [httpOk : {TRUE}, code : {0}, message : Messages,
          payout_info : {Null}, total_count : {0}]
    \cup [httpOk : {TRUE}, code : {0}, message : {<<>>},
          payout_info : {Some(l) : l \in BoundedSeq(RawPayoutInfo(category), room)},
          total_count : 0..(MaxBatch + 1)]

\* What of a response tells a failure: the HTTP status, the JSON code, the
\* JSON message.
Failure(resp) ==
    IF focus = "classify"
    THEN [httpOk |-> resp.httpOk, code |-> resp.code, message |-> resp.message]
    ELSE NoResponse

\* apiRequest: "Detect auth failures"
IsAuthFailure(json) ==
    \/ json.code \in {10000, 10001, 401, 16201010}
    \/ Includes(ToLowerCase(json.message), WordLogin)
    \/ Includes(ToLowerCase(json.message), WordAuth)
    \/ Includes(ToLowerCase(json.message), WordSession)

\* The page-count ceiling of fetchAllPayouts' loop.
PageCeiling == 100

\* new Date(parseInt(raw.payment_time)).toISOString().split('T')[0]
DateOfMillis(t) == t \div MsPerDay

\* formatPayout
FormatPayout(raw) ==
    [date |-> DateOfMillis(raw.payment_time),
     settlement_amount |-> raw.amount,
     amount_paid |-> raw.payment_amount]

\* formatDistPayouts, one record
FormatDistPayout(r) ==
    [statement_id |-> r.id,
     date |-> FormatPayout(r).date,
     settlement_amount |-> FormatPayout(r).settlement_amount,
     amount_paid |-> FormatPayout(r).amount_paid,
     type |-> "PRODUCT_DISTRIBUTION",
     currency |-> "USD"]

\* formatCreatorPayouts, one record
FormatCreatorPayout(r) ==
    [payment_id |-> r.id,
     date |-> FormatPayout(r).date,
     settlement_amount |-> FormatPayout(r).settlement_amount,
     amount_paid |-> FormatPayout(r).amount_paid]

\* A guard that looks at the persisted distribution payouts only.
GuardFiresDistOnly(dist, creator, existing) ==
    /\ Len(dist) = 0
    /\ Len(creator) = 0
    /\ Len(existing.distribution_payouts) > 0

\* A guard that asks for both persisted collections to be non-empty.
GuardFiresBothPersisted(dist, creator, existing) ==
    /\ Len(dist) = 0
    /\ Len(creator) = 0
    /\ (Len(existing.distribution_payouts) > 0 /\ Len(existing.payouts) > 0)

\* main, "Guard: never overwrite existing data with empty results"
GuardFires(dist, creator, existing) ==
    /\ Len(dist) = 0
    /\ Len(creator) = 0
    /\ (Len(existing.distribution_payouts) > 0 \/ Len(existing.payouts) > 0)

\* ---------------------------------------------- internal variant: actions

\* process.exit(0) when TIKTOK_SESSION_COOKIE is not set
ExitNoCookie == 0

\* main, from its start to the first page request: the cookie check, the load.
InternalStart(cookie) ==
    /\ pc = "idle"
    /\ variant' = "internal"
    /\ env' = [appKey |-> FALSE, appSecret |-> FALSE, accessToken |-> FALSE,
               sessionCookie |-> cookie]
    /\ IF ~cookie
       THEN /\ pc' = "exited"
            /\ exitCode' = ExitNoCookie
            /\ existingData' = EmptyData
       ELSE /\ pc' = "fetchDist"
            /\ exitCode' = -1
            /\ existingData' = file
    /\ UNCHANGED <<file, focus, rawBatch, normalized, otherRun, openIssues, signedLocals, distPayouts, internalLocals,
                   requested, writes, runDate>>

\* What main does when fetchAllPayouts returns `list` for the category being
\* fetched: after the distribution payouts it formats them and starts on the
\* creator payouts; after the creator payouts it formats them, sorts both
\* lists and applies the guard.
PayoutsReturned(list, why, failure) ==
    /\ page' = 1
    /\ totalCount' = 0
    /\ allPayouts' = <<>>
    /\ IF pc = "fetchDist"
       THEN /\ distPayouts' = MapSeq(list, FormatDistPayout)
            /\ emptiness' = [emptiness EXCEPT !.dist = why, !.failed = failure]
            /\ pc' = "fetchCreator"
            /\ UNCHANGED <<creatorPayouts, exitCode>>
       ELSE /\ creatorPayouts' = SortByDateDesc(MapSeq(list, FormatCreatorPayout))
            /\ distPayouts' = SortByDateDesc(distPayouts)
            /\ emptiness' = [emptiness EXCEPT !.creator = why, !.failed = failure]
            /\ IF GuardFires(distPayouts', creatorPayouts', existingData)
               THEN pc' = "exited" /\ exitCode' = ExitGuard
               ELSE pc' = "analytics" /\ exitCode' = -1

\* A try/catch around each category's fetch: the run goes on with the next
\* step after an exception.
ThrowSkipsCategory(at) == IF at = "fetchDist" THEN "fetchCreator" ELSE "analytics"

\* Where an exception thrown under main's try block continues: one catch
\* block for the whole of it.
ThrowTarget(at) == "catch"

\* A loop condition without the page-count ceiling.
LoopAgainNoCeiling(accumulated, total, nextPage) == accumulated < total

\* fetchAllPayouts: while (allPayouts.length < totalCount && page <= 100),
\* evaluated after page++
LoopAgain(accumulated, total, nextPage) ==
    accumulated < total /\ nextPage <= PageCeiling

\* The pages the source is ready to deliver.
PagesDelivered == IF focus = "paging" THEN PageCeiling + MaxPages ELSE MaxPages

\* One pass of the do-while loop of fetchAllPayouts: apiRequest, then either
\* an exception that reaches main's catch, a break, or the page is added and
\* the loop condition decides.  When the loop ends, main carries on.
FetchPage ==
    /\ variant = "internal"
    /\ pc \in {"fetchDist", "fetchCreator"}
    /\ requested' = TRUE
    /\ \E resp \in PageResponses(IF pc = "fetchDist" THEN "dist" ELSE "creator",
                                 MaxBatch - Len(allPayouts)) :
         LET grown == allPayouts \o resp.payout_info.list
             again == LoopAgain(Len(grown), resp.total_count, page + 1)
         IN IF ~resp.httpOk
            THEN /\ err' = "HTTP"
                 /\ pc' = ThrowTarget(pc)
                 /\ emptiness' = [emptiness EXCEPT !.failed = Failure(resp)]
                 /\ UNCHANGED <<distPayouts, creatorPayouts, page, totalCount,
                                allPayouts, exitCode>>
            ELSE IF IsAuthFailure(resp)
            THEN /\ err' = "AUTH_EXPIRED"
                 /\ pc' = ThrowTarget(pc)
                 /\ emptiness' = [emptiness EXCEPT !.failed = Failure(resp)]
                 /\ UNCHANGED <<distPayouts, creatorPayouts, page, totalCount,
                                allPayouts, exitCode>>
            ELSE IF resp.code # 0 \/ resp.payout_info.isNull
            THEN /\ PayoutsReturned(allPayouts,
                                    IF allPayouts = <<>> THEN "nodata" ELSE "records",
                                    IF resp.code # 0 THEN Failure(resp)
                                    ELSE emptiness.failed)
                 /\ UNCHANGED err
            ELSE IF again
            THEN /\ page < PagesDelivered
                 /\ totalCount' = resp.total_count
                 /\ allPayouts' = grown
                 /\ page' = page + 1
                 /\ UNCHANGED <<distPayouts, creatorPayouts, emptiness, err, pc,
                                exitCode>>
            ELSE /\ PayoutsReturned(grown,
                                    IF grown = <<>> THEN "confirmed" ELSE "records",
                                    emptiness.failed)
                 /\ UNCHANGED err
    /\ UNCHANGED <<file, focus, rawBatch, normalized, otherRun, openIssues, variant, env, existingData, signedLocals,
                   affiliateMetrics, writes, runDate, issueCalls, alert>>

\* What the affiliate analytics request meets: TIKTOK_AFFILIATE_COOKIE set or
\* not, fetch throwing, the HTTP status, the JSON code and message, and the
\* metrics of the first segment (null when absent).
AffiliateResponses ==
    [cookie : {FALSE}, thrown : {FALSE}, httpOk : {TRUE}, code : {0},
     message : {<<>>}, metrics : {NullMetrics}]
    \cup [cookie : {TRUE}, thrown : BOOLEAN, httpOk : BOOLEAN, code : {0},
          message : {<<>>}, metrics : {NullMetrics}]
    \cup [cookie : {TRUE}, thrown : {FALSE}, httpOk : {TRUE},
          code : {5, 401, 10000, 10001},
          message : {<<>>, <<"L", "o", "g", "i", "n">>, <<"o", "k">>},
          metrics : {NullMetrics}]
    \cup [cookie : {TRUE}, thrown : {FALSE}, httpOk : {TRUE}, code : {0},
          message : {<<>>},
          metrics : {[isNull |-> FALSE, val |-> m] : m \in Metrics}]

\* fetchAffiliateAnalytics: the branch a response takes.
AffiliateOutcome(resp) ==
    IF ~resp.cookie THEN "nocookie"
    ELSE IF resp.thrown \/ ~resp.httpOk THEN "failed"
    ELSE IF resp.code # 0
    THEN IF \/ Includes(ToLowerCase(resp.message), WordLogin)
            \/ Includes(ToLowerCase(resp.message), WordAuth)
            \/ resp.code = 10000
            \/ resp.code = 10001
         THEN "auth"
         ELSE "error"
    ELSE IF resp.metrics.isNull THEN "nometrics"
    ELSE "metrics"

\* fetchAffiliateAnalytics: its result, null on every branch but the last.
FetchAffiliateAnalytics(resp) ==
    IF AffiliateOutcome(resp) = "metrics" THEN resp.metrics ELSE NullMetrics

\* main after the guard: fetchAffiliateAnalytics (which returns null on every
\* failure), then the updated data is built and written.  A write that throws
\* lands in main's catch.
InternalAnalyticsAndWrite ==
    /\ variant = "internal"
    /\ pc = "analytics"
    /\ requested' = TRUE
    /\ \E resp \in AffiliateResponses :
          /\ affiliateMetrics' = FetchAffiliateAnalytics(resp)
          /\ emptiness' = [emptiness EXCEPT !.analytics = AffiliateOutcome(resp)]
    /\ writes' = writes + 1
    /\ \E today \in RunDates(existingData) : \E written \in BOOLEAN :
         /\ runDate' = today
         /\ file' = WriteFileSync(file,
                                  [analytics |-> MergeAnalytics(existingData.analytics,
                                                                affiliateMetrics', today),
                                   payouts |-> creatorPayouts,
                                   distribution_payouts |-> distPayouts],
                                  written)
         /\ IF written
            THEN /\ pc' = "exited"
                 /\ exitCode' = ExitNormal
                 /\ err' = err
            ELSE /\ pc' = "catch"
                 /\ exitCode' = -1
                 /\ err' = "EIO"
    /\ UNCHANGED <<focus, rawBatch, normalized, otherRun, openIssues, variant, env, existingData, signedLocals, distPayouts,
                   creatorPayouts, page, totalCount, allPayouts, issueCalls,
                   alert>>

\* Open issues with the label beyond which the model follows no further one.
MaxIssues == 2

\* Outcomes of the search call and of the create call of createExpiryIssue:
\* the list of open issues comes back, an error payload (an object) comes
\* back, or fetch throws; the issue is created, the request is refused with
\* an error response, or fetch throws.
SearchOutcomes == {"list", "error", "threw"}

CreateOutcomes == {"created", "refused", "threw"}

\* GH_TOKEN and GH_REPO are both set, or not.
TicketingCredentials == IF focus = "alert" THEN BOOLEAN ELSE {FALSE}

\* A createExpiryIssue whose create call is not wrapped in try/catch.
CreateExpiryIssueUncaught(credentials, search, create, open) ==
    IF ~credentials \/ (search = "list" /\ open > 0)
    THEN [created |-> FALSE, threw |-> FALSE]
    ELSE [created |-> create = "created", threw |-> create = "threw"]

\* createExpiryIssue: nothing without GH_TOKEN and GH_REPO; nothing when the
\* search returned a non-empty array; otherwise (empty array, any other
\* payload, or an exception, which is ignored) the create call is made, and
\* an exception from it is caught and logged.
CreateExpiryIssue(credentials, search, create, open) ==
    IF ~credentials
    THEN [created |-> FALSE, threw |-> FALSE]
    ELSE IF search = "list" /\ open > 0
    THEN [created |-> FALSE, threw |-> FALSE]
    ELSE [created |-> create = "created", threw |-> FALSE]

\* A catch block that raises the alert for every error.
IsAnyError(e) == e # ""

\* main's catch: err.message.startsWith('AUTH_EXPIRED')
IsAuthExpired(e) == e = "AUTH_EXPIRED"

\* process.exit(0) in main().catch of the internal script
ExitOnFatalInternal == 0

\* main's catch block: an AUTH_EXPIRED error calls createExpiryIssue; every
\* error ends in process.exit(0).  An exception out of createExpiryIssue
\* would leave main and end in main().catch.
InternalCatch ==
    /\ variant = "internal"
    /\ pc = "catch"
    /\ IF IsAuthExpired(err)
       THEN \E credentials \in TicketingCredentials, search \in SearchOutcomes,
               create \in CreateOutcomes :
              LET did == CreateExpiryIssue(credentials, search, create, openIssues)
              IN /\ did.created => openIssues < MaxIssues
                 /\ issueCalls' = issueCalls + 1
                 /\ alert' = [credentials |-> credentials, search |-> search,
                              create |-> create, open |-> openIssues,
                              created |-> did.created, threw |-> did.threw]
                 /\ openIssues' = IF did.created THEN openIssues + 1
                                  ELSE openIssues
                 /\ exitCode' = IF did.threw THEN ExitOnFatalInternal
                                ELSE ExitCaught
       ELSE /\ exitCode' = ExitCaught
            /\ UNCHANGED <<issueCalls, alert, openIssues>>
    /\ pc' = "exited"
    /\ UNCHANGED <<file, focus, rawBatch, normalized, otherRun, variant, env, existingData, signedLocals,
                   distPayouts, creatorPayouts, page, totalCount, allPayouts,
                   emptiness, affiliateMetrics, err, requested, writes, runDate>>

\* Somebody refreshes the cookie and closes an open issue, between runs.
CloseIssue ==
    /\ pc = "idle"
    /\ openIssues > 0
    /\ openIssues' = openIssues - 1
    /\ UNCHANGED <<file, focus, rawBatch, normalized, otherRun, variant, env, pc, existingData, signedLocals,
                   distPayouts, internalLocals, requested, writes, runDate, exitCode>>

NextInternal ==
    \/ ProcessEnds
    \/ \E cookie \in BOOLEAN : InternalStart(cookie)
    \/ FetchPage
    \/ InternalAnalyticsAndWrite
    \/ InternalCatch
    \/ CloseIssue
    \/ RequestNeverAnswered

\* The internal variant on every input but the long paginations.
InitInternal == Init /\ focus # "paging"

SpecInternal == InitInternal /\ [][NextInternal]_vars

\* The internal variant against a source that goes on delivering pages; the
\* run has no credentials of the issue tracker.
InitPaging == Init /\ focus = "paging"

NextPaging ==
    \/ ProcessEnds
    \/ \E cookie \in BOOLEAN : InternalStart(cookie)
    \/ FetchPage
    \/ InternalAnalyticsAndWrite
    \/ InternalCatch

SpecPaging == InitPaging /\ [][NextPaging]_vars

\* ------------------------------------------------------- the bookmarklet

\* refreshAgencyData, run by the operator between runs of the scripts: both
\* payout lists are paged in, formatted in the order the source gave them
\* (no sort, no deduplication) and pushed as the new agency-data.json with
\* the analytics figures written in the script.  A failure on the way leaves
\* the file as it is (no step is taken).
Bookmarklet ==
    /\ pc = "idle"
    /\ \E distList \in BoundedSeq(RawPayoutInfo("dist"), MaxBatch) :
         \E creatorList \in BoundedSeq(RawPayoutInfo("creator"), MaxBatch) :
           \E today \in RunDates(file) :
             file' = [analytics |-> [last_updated |-> today,
                                     affiliate_gmv |-> 486223,
                                     est_commission |-> 41184,
                                     orders |-> 23077,
                                     gmv_refund |-> 13266],
                      payouts |-> MapSeq(creatorList, FormatCreatorPayout),
                      distribution_payouts |-> MapSeq(distList, FormatDistPayout)]
    /\ UNCHANGED <<focus, rawBatch, normalized, otherRun, openIssues, variant, env, pc, existingData, signedLocals,
                   distPayouts, internalLocals, requested, writes, runDate, exitCode>>

\* ------------------------------------------------------ overlapping runs

\* A run that reads the file again when it writes and merges into what it
\* finds there.
UpdatedDataOnFile(current, loaded, fetchedSettlements, statements, payments, today) ==
    [analytics |-> MergeAnalytics(current.analytics, NullMetrics, today),
     payouts |-> MergePayouts(current.payouts, fetchedSettlements),
     distribution_payouts |-> MergeDist(current.distribution_payouts,
                                        statements, payments)]

\* main of the signed script, from "Update creator payouts" to const
\* updatedData = {...}, for a run whose analytics fetch returned null: the
\* data it loaded merged with what it fetched.  The file as it is now
\* (current) is not read.
UpdatedData(current, loaded, fetchedSettlements, statements, payments, today) ==
    [analytics |-> MergeAnalytics(loaded.analytics, NullMetrics, today),
     payouts |-> MergePayouts(loaded.payouts, fetchedSettlements),
     distribution_payouts |-> MergeDist(loaded.distribution_payouts,
                                        statements, payments)]

\* A second run of the signed script starts and loads the file, whatever
\* the first run is doing: nothing locks the file.
OtherRunLoads ==
    /\ focus = "overlap"
    /\ otherRun.pc = "idle"
    /\ otherRun' = [NoOtherRun EXCEPT !.pc = "loaded", !.existingData = file]
    /\ UNCHANGED <<file, focus, rawBatch, normalized, variant, env, pc,
                   existingData, signedLocals, distPayouts, internalLocals,
                   requested, writes, runDate, exitCode, openIssues>>

\* The second run fetches, merges and writes the file.
OtherRunWrites ==
    /\ otherRun.pc = "loaded"
    /\ \E s \in BoundedSeq(RawSettlements, MaxBatch) :
       \E st \in BoundedSeq(RawStatements, MaxBatch) :
       \E p \in BoundedSeq(RawPayments, MaxBatch) :
       \E today \in RunDates(otherRun.existingData) :
         LET fetchedSettlements ==
                 IF s # <<>> THEN Some(MapSeq(s, NormalizeSettlement)) ELSE Null
             statements ==
                 IF st # <<>> THEN Some(DedupDist(MapSeq(st, NormalizeStatement)))
                 ELSE Null
             payments ==
                 IF p # <<>> THEN Some(MapSeq(p, NormalizePayment)) ELSE Null
             updatedData == UpdatedData(file, otherRun.existingData,
                                        fetchedSettlements, statements, payments,
                                        today)
         IN /\ otherRun' = [pc |-> "written",
                            existingData |-> otherRun.existingData,
                            settlements |-> fetchedSettlements,
                            v2Statements |-> statements,
                            v2Payments |-> payments,
                            updatedData |-> updatedData]
            /\ file' = WriteFileSync(file, updatedData, TRUE)
    /\ UNCHANGED <<focus, rawBatch, normalized, variant, env, pc, existingData,
                   signedLocals, distPayouts, internalLocals, requested, writes,
                   runDate, exitCode, openIssues>>

\* The process of the second run ends.
OtherRunEnds ==
    /\ otherRun.pc = "written"
    /\ otherRun' = NoOtherRun
    /\ UNCHANGED <<file, focus, rawBatch, normalized, variant, env, pc,
                   existingData, signedLocals, distPayouts, internalLocals,
                   requested, writes, runDate, exitCode, openIssues>>

NextOverlap ==
    \/ ProcessEnds
    \/ \E key, secret, token \in BOOLEAN : SignedStart(key, secret, token)
    \/ FetchSettlements
    \/ FetchTransactions
    \/ FetchAnalytics
    \/ FetchStatements
    \/ FetchPayments
    \/ SignedMergeAndWrite
    \/ OtherRunLoads
    \/ OtherRunWrites
    \/ OtherRunEnds

InitOverlap == Init /\ focus = "overlap"

\* Two runs of the signed script on one file.
SpecOverlap == InitOverlap /\ [][NextOverlap]_vars

\* ------------------------------------------- the normalizers on their own

\* Raw statements: each candidate field is absent, null, zero, empty, a
\* usable value or a string that is not a number.
RawStatementRecords ==
    [id : {JsUndefined, JsNull, Str(<<>>), Str(<<"s", "1">>)},
     statement_id : {JsUndefined, Str(<<"s", "2">>)},
     statement_time : {JsUndefined, Num(0), Num(1 * SecPerDay + 30), Str(<<"x">>)},
     settle_time : {JsUndefined, Num(2 * SecPerDay)},
     settlement_amount : {JsUndefined, Num(0), Num(5), Str(<<"7">>), Str(<<"a">>)},
     revenue_amount : {JsUndefined, Num(6)},
     amount : {JsUndefined, Num(8)},
     payout_amount : {JsUndefined, Num(0), Num(4)},
     paid_amount : {JsUndefined, Num(3)},
     statement_type : {JsUndefined, Str(<<"PRODUCT_DISTRIBUTION">>)},
     type : {JsUndefined},
     currency : {JsUndefined}]

RawPaymentRecords ==
    [id : {JsUndefined, Str(<<>>), Str(<<"p", "1">>)},
     payment_id : {JsUndefined, Str(<<"p", "2">>)},
     payout_id : {JsUndefined},
     payment_time : {JsUndefined, Num(0), Num(1 * SecPerDay + 30), Str(<<"x">>)},
     create_time : {JsUndefined, Num(2 * SecPerDay)},
     amount : {JsUndefined, Num(0), Num(5), Str(<<"a">>)},
     payout_amount : {JsUndefined, Num(6)},
     payment_amount : {JsUndefined},
     status : {JsUndefined},
     type : {JsUndefined},
     payment_type : {JsUndefined},
     currency : {JsUndefined}]

RawSettlementRecords ==
    [id : {JsUndefined, Str(<<"p", "1">>)},
     settlement_id : {JsUndefined},
     settle_time : {JsUndefined, Num(1 * SecPerDay + 30), Str(<<"x">>)},
     settlement_amount : {JsUndefined, Num(0), Num(5), Str(<<"a">>)},
     revenue : {JsUndefined, Num(6)},
     payout_amount : {JsUndefined, Num(0), Num(4)}]

\* payout_info entries: payment_time is a string of milliseconds.
RawPayoutRecords ==
    [id : {JsUndefined, Str(<<"s", "1">>)},
     payment_time : {JsUndefined, Str(<<"8", "6", "4", "0", "0", "5", "0", "0">>),
                     Str(<<"x">>)},
     amount : {JsUndefined, Num(5), Str(<<"7">>), Str(<<"a">>)},
     payment_amount : {JsUndefined, Num(5)}]

RawRecords(by) ==
    CASE by = "statements" -> RawStatementRecords
      [] by = "payments" -> RawPaymentRecords
      [] by = "settlements" -> RawSettlementRecords
      [] by = "distPayouts" -> RawPayoutRecords

\* Three records of each kind for the lists of two: one with id, date and
\* amounts, one with none of them, one with no id and a timestamp that is
\* not a number.
SampleRecords(by) ==
    {r \in RawRecords(by) :
        \/ \A f \in DOMAIN r : r[f] = JsUndefined
        \/ /\ \A f \in DOMAIN r : r[f] \in {JsUndefined, Str(<<"x">>)}
           /\ r.id = JsUndefined
           /\ \E f \in DOMAIN r : r[f] # JsUndefined
        \/ /\ r.id \in {Str(<<"s", "1">>), Str(<<"p", "1">>)}
           /\ \A f \in DOMAIN r \ {"id"} :
                r[f] \in {JsUndefined, Num(1 * SecPerDay + 30), Num(5),
                          Str(<<"8", "6", "4", "0", "0", "5", "0", "0">>)}
           /\ \A f \in {"statement_time", "payment_time", "settlement_amount"}
                       \cap DOMAIN r :
                r[f] # JsUndefined
           /\ "settlement_amount" \notin DOMAIN r => r.amount # JsUndefined}

\* The lists handed to a normalizer: every single record, and the lists of
\* two sample records.
RawBatches(by) ==
    {<<r>> : r \in RawRecords(by)}
    \cup {<<r1, r2>> : r1, r2 \in SampleRecords(by)}

\* A normalizer is applied to a list of raw records.
NormalizeRecords ==
    /\ focus = "normalize"
    /\ pc = "idle"
    /\ rawBatch = NoBatch
    /\ \E by \in Normalizers : \E records \in RawBatches(by) :
         /\ rawBatch' = [by |-> by, records |-> records]
         /\ normalized' = NormalizeBatch(by, records)
    /\ UNCHANGED <<file, focus, otherRun, variant, env, pc, existingData,
                   signedLocals, distPayouts, internalLocals, requested, writes,
                   runDate, exitCode, openIssues>>

\* ------------------------------------------------------- specifications

InitNormalizers == Init /\ focus = "normalize"

\* The normalizers applied to lists of raw records.
SpecNormalizers == InitNormalizers /\ [][NormalizeRecords]_vars


\* The signed variant, with the bookmarklet as the other writer of the file.
NextSignedFile ==
    \/ NextSigned
    \/ Bookmarklet

SpecSignedFile == Init /\ [][NextSignedFile]_vars

Next ==
    \/ ProcessEnds
    \/ \E key, secret, token \in BOOLEAN : SignedStart(key, secret, token)
    \/ FetchSettlements
    \/ FetchTransactions
    \/ FetchAnalytics
    \/ FetchStatements
    \/ FetchPayments
    \/ SignedMergeAndWrite
    \/ RequestNeverAnswered
    \/ \E cookie \in BOOLEAN : InternalStart(cookie)
    \/ FetchPage
    \/ InternalAnalyticsAndWrite
    \/ InternalCatch
    \/ CloseIssue
    \/ Bookmarklet

\* All three programs, on the inputs that decide the control flow: empty or
\* not, failing or not, metrics or none.
InitControl == Init /\ focus \in {"race", "analytics", "alert", "classify", "hang"}

Spec == InitControl /\ [][Next]_vars

\* All three programs on every input of the model.
SpecAll == Init /\ [][Next]_vars

\* ------------------------------------------------------------------ claims

Range(s) == {s[i] : i \in 1..Len(s)}

\* A run has ended (its variables are still there).
RunEnded == pc = "exited"

\* The run had the credential its script asks for.
HasCredential ==
    \/ variant = "signed" /\ env.appKey /\ env.appSecret /\ env.accessToken
    \/ variant = "internal" /\ env.sessionCookie

\* The batch a run fetched for a category, as the records main merges:
\* creator payouts come from the settlements (signed) or the creator payout
\* pages (internal), distribution payouts from payments then statements
\* (signed) or the distribution payout pages (internal).
IncomingCreator ==
    IF variant = "signed" THEN settlements.list ELSE creatorPayouts

IncomingDist ==
    IF variant = "signed"
    THEN MapSeq(v2Payments.list, PaymentToDist)
         \o MapSeq(v2Statements.list, StatementToDist)
    ELSE IF pc = "fetchDist" THEN <<>> ELSE distPayouts

\* The fetch of a category ended without records and without the source
\* saying there are none: null results (signed), an error code or a response
\* without payout_info on the first page (internal).
NoDataCreator ==
    \/ variant = "signed" /\ done = Tasks /\ settlements.isNull
    \/ variant = "internal" /\ emptiness.creator = "nodata"

NoDataDist ==
    \/ variant = "signed" /\ done = Tasks /\ v2Statements.isNull /\ v2Payments.isNull
    \/ variant = "internal" /\ emptiness.dist = "nodata"

\* C1: for each category on its own, a fetch that yields no records (NoData)
\* while the persisted collection is not empty leaves that collection on disk
\* as it was, whatever the other category's fetch returned.
C1_GuardPerCategory ==
    RunEnded =>
        /\ (NoDataCreator /\ existingData.payouts # <<>>)
              => file.payouts = existingData.payouts
        /\ (NoDataDist /\ existingData.distribution_payouts # <<>>)
              => file.distribution_payouts = existingData.distribution_payouts

\* C2: after a run, every persisted record whose identity key does not occur
\* in the batch fetched for its category is still in the collection on disk.
C2_NoPersistedRecordLost ==
    (RunEnded /\ HasCredential) =>
        /\ \A r \in Range(existingData.payouts) :
              (\A x \in Range(IncomingCreator) : CreatorKey(x) # CreatorKey(r))
                 => r \in Range(file.payouts)
        /\ \A r \in Range(existingData.distribution_payouts) :
              (\A x \in Range(IncomingDist) : DistKey(x) # DistKey(r))
                 => r \in Range(file.distribution_payouts)

\* The collections a run hands to writeFileSync.
WrittenCreator == IF variant = "signed" THEN payouts ELSE creatorPayouts

WrittenDist == distPayouts

UniqueCreatorKeys(s) ==
    \A i, j \in 1..Len(s) : CreatorKey(s[i]) = CreatorKey(s[j]) => i = j

UniqueDistKeys(s) ==
    \A i, j \in 1..Len(s) : DistKey(s[i]) = DistKey(s[j]) => i = j

SortedByDateDesc(s) == \A i, j \in 1..Len(s) : i < j => s[i].date >= s[j].date

\* C4: no two records of a collection that a run writes share an identity key,
\* also when the category fetched nothing.
C4_WrittenKeysUnique ==
    (RunEnded /\ writes = 1) =>
        UniqueCreatorKeys(WrittenCreator) /\ UniqueDistKeys(WrittenDist)

\* C5: every collection a run writes is sorted by date descending, also when
\* the category fetched nothing and the persisted collection is carried over.
C5_WrittenSorted ==
    (RunEnded /\ writes = 1) =>
        SortedByDateDesc(WrittenCreator) /\ SortedByDateDesc(WrittenDist)

\* The first record of s that has the creator key k / the distribution key k.
FirstCreator(s, k) ==
    s[CHOOSE i \in 1..Len(s) :
        /\ CreatorKey(s[i]) = k
        /\ \A j \in 1..(i - 1) : CreatorKey(s[j]) # k]

FirstDist(s, k) ==
    s[CHOOSE i \in 1..Len(s) :
        /\ DistKey(s[i]) = k
        /\ \A j \in 1..(i - 1) : DistKey(s[j]) # k]

SignedRunWrote == RunEnded /\ variant = "signed" /\ writes = 1

\* C3: in a signed run, when a fetched record and a persisted record have the
\* same identity key, the merged collection holds exactly one record with
\* that key and it is the fetched record, field for field.
C3_IncomingWins ==
    SignedRunWrote =>
        /\ \A x \in Range(IncomingCreator) :
              (\E r \in Range(existingData.payouts) : CreatorKey(r) = CreatorKey(x))
              => /\ Cardinality({j \in 1..Len(payouts) :
                                   CreatorKey(payouts[j]) = CreatorKey(x)}) = 1
                 /\ \A j \in 1..Len(payouts) :
                       CreatorKey(payouts[j]) = CreatorKey(x)
                       => payouts[j] = FirstCreator(IncomingCreator, CreatorKey(x))
        /\ \A x \in Range(IncomingDist) :
              (\E r \in Range(existingData.distribution_payouts) : DistKey(r) = DistKey(x))
              => /\ Cardinality({j \in 1..Len(distPayouts) :
                                   DistKey(distPayouts[j]) = DistKey(x)}) = 1
                 /\ \A j \in 1..Len(distPayouts) :
                       DistKey(distPayouts[j]) = DistKey(x)
                       => distPayouts[j] = FirstDist(IncomingDist, DistKey(x))

\* A signed run has merged a fetched settlement over a persisted payout that
\* has the same key and other field values.
C3_Witness ==
    /\ SignedRunWrote
    /\ \E x \in Range(IncomingCreator), r \in Range(existingData.payouts) :
          CreatorKey(x) = CreatorKey(r) /\ x # r

\* C6: merging the batch a signed run fetched into the collections that run
\* produced gives those collections again: a second run that loads the
\* written file and fetches the same batch writes the same collections.
C6_MergeIdempotent ==
    SignedRunWrote =>
        /\ MergePayouts(payouts, settlements) = payouts
        /\ MergeDist(distPayouts, v2Statements, v2Payments) = distPayouts

\* A signed run has merged fetched statements and payments into a persisted
\* distribution collection and the merge changed it.
C6_Witness ==
    /\ SignedRunWrote
    /\ NonEmpty(v2Statements)
    /\ NonEmpty(v2Payments)
    /\ existingData.distribution_payouts # <<>>
    /\ distPayouts # existingData.distribution_payouts

\* The source answered a category's fetch of the internal variant with
\* success and zero records (ConfirmedEmpty), or the fetch brought nothing.
FetchedNothing(category) == emptiness[category] \in {"confirmed", "nodata"}

PersistedNonEmpty ==
    existingData.payouts # <<>> \/ existingData.distribution_payouts # <<>>

C9_ExitStatusZero ==
    /\ RunEnded => exitCode = 0
    /\ ~RunEnded => exitCode = -1

\* A run ended through main's catch after a request failed.
C9_Witness ==
    /\ RunEnded
    /\ variant = "internal"
    /\ err = "HTTP"
    /\ requested

\* C10: a run that starts without a credential it requires ends at once with
\* exit status 0, having made no request, raised no alert and not written:
\* the file is the one it found.
C10_MissingCredentialStep ==
    (pc = "idle" /\ pc' # "idle" /\ ~HasCredential')
        => /\ pc' = "exited"
           /\ exitCode' = 0
           /\ file' = file
           /\ ~requested'
           /\ issueCalls' = 0
           /\ writes' = 0

C10_MissingCredential == [][C10_MissingCredentialStep]_vars

\* A signed run that lacks only its app secret has ended while the file
\* holds payouts.
C10_Witness ==
    /\ RunEnded
    /\ variant = "signed"
    /\ env.appKey /\ ~env.appSecret /\ env.accessToken
    /\ file.payouts # <<>>
    /\ writes = 0

InternalRunEnded == RunEnded /\ variant = "internal" /\ env.sessionCookie

C12_AtMostOneOpenAlert ==
    /\ openIssues <= 1
    /\ alert.created => alert.open = 0

\* C13: whatever the search call and the create call of createExpiryIssue do
\* (answer, fail, throw) and with or without the tracker's credentials,
\* createExpiryIssue returns normally and the run ends as it does when the
\* issue is created: exit status 0, nothing written, the file as loaded.
C13_AlertingBestEffort ==
    (InternalRunEnded /\ issueCalls = 1) =>
        /\ ~alert.threw
        /\ exitCode = 0
        /\ writes = 0
        /\ file = existingData

\* A run whose search call and create call both threw has ended, the file
\* holding payouts.
C13_Witness ==
    /\ InternalRunEnded
    /\ issueCalls = 1
    /\ alert.credentials
    /\ alert.search = "threw"
    /\ alert.create = "threw"
    /\ file.payouts # <<>>

RunUnderWay == pc \notin {"idle", "exited"}

\* The fetches of the run have all been joined.
FetchesJoined ==
    \/ variant = "signed" /\ done = Tasks
    \/ variant = "internal" /\ pc = "analytics"

\* C15: while a run is under way the file is the one the run loaded, and the
\* one step of a run that changes the file comes after all fetches have been
\* joined and puts the complete merged state into it: analytics, creator
\* payouts and distribution payouts of the run.
C15_NoPartialWriteStep ==
    /\ RunUnderWay => file = existingData
    /\ (RunUnderWay /\ file' # file)
          => /\ FetchesJoined
             /\ writes' = 1
             /\ file'.payouts = WrittenCreator'
             /\ file'.distribution_payouts = WrittenDist'
             /\ file'.analytics.last_updated >= file.analytics.last_updated

CarriesAuthSignal(json) ==
    \/ json.code \in {10000, 10001, 401, 16201010}
    \/ \E word \in {WordLogin, WordAuth, WordSession} :
          Includes(ToLowerCase(json.message), word)

\* A payout response of the run was a failure: an HTTP error status, an
\* error code or one of the signals.
SawFailure == variant = "internal" /\ emptiness.failed # NoResponse

\* C16: a payout response that carries one of the signals makes apiRequest
\* throw AUTH_EXPIRED, and a failed response that carries none of them does
\* not.
C16_AuthClassifier ==
    (SawFailure /\ pc \in {"catch", "exited", "fetchCreator", "analytics"}) =>
        (err = "AUTH_EXPIRED" <=> CarriesAuthSignal(emptiness.failed))

\* A response with a data object, no error code and at least one record.
CarriesRecords(r) == ~r.threw /\ r.hasData /\ r.code = 0 /\ Len(r.payments) >= 1

\* fetchPayments has returned in a run that keeps what it received.
PaymentsFetched == variant = "signed" /\ focus = "chain" /\ "payments" \in done

C18_PaginationStep ==
    /\ page' \in 1..100
    /\ page' # page =>
         \/ page' = 1
         \/ /\ page' = page + 1
            /\ pc \in {"fetchDist", "fetchCreator"} /\ pc' = pc
            /\ err' = err /\ err = ""
            /\ emptiness' = emptiness
            /\ Len(allPayouts') >= Len(allPayouts)
            /\ SubSeq(allPayouts', 1, Len(allPayouts)) = allPayouts
            /\ Len(allPayouts') < totalCount'

C18_PaginationTerminates == [][C18_PaginationStep]_vars

\* fetchAllPayouts is about to make its 100th request: 99 pages came back
\* with fewer records than the source announced.
C18_Witness ==
    /\ variant = "internal"
    /\ pc \in {"fetchDist", "fetchCreator"}
    /\ page = 100
    /\ Len(allPayouts) < totalCount

\* What a fetch of the Promise.all hands to main.
ResultOf(task) ==
    CASE task = "settlements" -> settlements
      [] task = "transactions" -> transactions
      [] task = "analytics" -> [isNull |-> analytics.isNull, list |-> <<analytics.val>>]
      [] task = "statements" -> v2Statements
      [] task = "payments" -> v2Payments

\* C19: a step by which one of the five fetches settles leaves the results
\* of the other four, the loaded data and the lists to write as they were;
\* the run writes only when all five have settled; and what it writes is
\* determined by the loaded data and the five results (and the day of the
\* run), whatever the order in which they settled.
C19_RaceFreeStep ==
    /\ (variant = "signed" /\ pc = "fetching" /\ done' # done) =>
         \E task \in {"settlements", "transactions", "analytics", "statements",
                      "payments"} \ done :
           /\ done' = done \cup {task}
           /\ \A other \in {"settlements", "transactions", "analytics",
                             "statements", "payments"} \ {task} :
                ResultOf(other)' = ResultOf(other)
           /\ existingData' = existingData
           /\ payouts' = payouts /\ distPayouts' = distPayouts
           /\ file' = file /\ writes' = writes
    /\ (variant = "signed" /\ writes' # writes) =>
         /\ done = {"settlements", "transactions", "analytics", "statements",
                    "payments"}
         /\ \/ file' = file
            \/ \E today \in Days :
                 file' = [analytics |-> MergeAnalytics(existingData.analytics,
                                                       analytics, today),
                          payouts |-> MergePayouts(existingData.payouts,
                                                   settlements),
                          distribution_payouts |->
                              MergeDist(existingData.distribution_payouts,
                                        v2Statements, v2Payments)]

C19_RaceFree == [][C19_RaceFreeStep]_vars

\* The four fetches listed after fetchSettlements have settled with results
\* while fetchSettlements is still pending.
C19_Witness ==
    /\ variant = "signed"
    /\ pc = "fetching"
    /\ done = {"transactions", "analytics", "statements", "payments"}
    /\ NonEmpty(v2Statements)
    /\ NonEmpty(v2Payments)

\* C20: no run is left waiting without bound on a request that receives no
\* response: every request is cut off by a timeout and counted as a failure,
\* so the run goes on to its end.
C20_NoRequestHangs == pc # "hung"

\* The four metric fields of an analytics object.
MetricsOf(a) ==
    [affiliate_gmv |-> a.affiliate_gmv, est_commission |-> a.est_commission,
     orders |-> a.orders, gmv_refund |-> a.gmv_refund]

\* C21: a step by which a run writes the file (or fails to: the file is
\* then as it was) leaves in it the date of the run as analytics.last_updated,
\* the fetched values in the four metric fields when the analytics fetch of
\* the run returned metrics, and the values the file held before in them
\* when the fetch failed or was skipped.
C21_AnalyticsSnapshotStep ==
    (variant \in {"signed", "internal"} /\ writes' = writes + 1) =>
        LET fetched == IF variant = "signed" THEN analytics ELSE affiliateMetrics'
        IN /\ runDate' \in Days
           /\ \/ file' = file /\ (variant = "internal" => pc' = "catch")
              \/ /\ variant = "internal" => pc' = "exited"
                 /\ file'.analytics.last_updated = runDate'
                 /\ ~fetched.isNull => MetricsOf(file'.analytics) = fetched.val
                 /\ fetched.isNull =>
                      MetricsOf(file'.analytics) = MetricsOf(file.analytics)

C21_AnalyticsSnapshot == [][C21_AnalyticsSnapshotStep]_vars

\* A run on day 2 whose analytics fetch failed has written the file: the
\* metrics of day 1 are still there under the date of day 2.
C21_Witness ==
    /\ RunEnded
    /\ writes = 1
    /\ IF variant = "signed" THEN analytics.isNull ELSE affiliateMetrics.isNull
    /\ runDate = 2
    /\ existingData.analytics.last_updated = 1
    /\ existingData.analytics.affiliate_gmv = 100
    /\ file.analytics.last_updated = 2
    /\ file.analytics.affiliate_gmv = 100

\* The first of the candidates that is neither absent nor null, else the
\* default.
RECURSIVE FirstPresent(_, _)
FirstPresent(candidates, default) ==
    IF candidates = <<>> THEN default
    ELSE IF Head(candidates).t \notin {"undefined", "null"} THEN Head(candidates)
    ELSE FirstPresent(Tail(candidates), default)

\* A normalizer has mapped a list of one raw record without an exception.
NormalizedOne(by) ==
    /\ rawBatch.by = by
    /\ Len(rawBatch.records) = 1
    /\ ~normalized.threw

\* C22: the identity, the amounts and the type of a normalized statement or
\* payment are taken from the first candidate field, in the order of the
\* mapping, that the raw record has with a value other than null, also when
\* that value is 0 or the empty string.
C22_NormalizerFieldPriority ==
    /\ NormalizedOne("statements") =>
         LET s == rawBatch.records[1]
             n == normalized.records[1]
         IN /\ n.statement_id = FirstPresent(<<s.id, s.statement_id>>, Str(<<>>))
            /\ n.settlement_amount
                 = ParseFloat(FirstPresent(<<s.settlement_amount, s.revenue_amount,
                                             s.amount>>, Num(0)))
            /\ n.amount_paid
                 = ParseFloat(FirstPresent(<<s.payout_amount, s.paid_amount,
                                             s.settlement_amount, s.amount>>, Num(0)))
            /\ n.type = FirstPresent(<<s.statement_type, s.type>>,
                                     Str(<<"unknown">>))
    /\ NormalizedOne("payments") =>
         LET p == rawBatch.records[1]
             n == normalized.records[1]
         IN /\ n.payment_id = FirstPresent(<<p.id, p.payment_id, p.payout_id>>,
                                           Str(<<>>))
            /\ n.amount
                 = ParseFloat(FirstPresent(<<p.amount, p.payout_amount,
                                             p.payment_amount>>, Num(0)))

\* C23: the settlement_amount and the amount_paid of every record a
\* normalizer hands to the merge are numbers, never NaN: a monetary source
\* value that is missing or is not the text of a number has become 0.
C23_NoNaNNormalized ==
    rawBatch.by \in {"statements", "settlements", "distPayouts"} =>
        \A i \in 1..Len(normalized.records) :
            /\ normalized.records[i].settlement_amount.t = "number"
            /\ normalized.records[i].amount_paid.t = "number"

\* The fields of a raw record that can give its identity key and its date.
IdCandidates(by, r) ==
    CASE by = "statements" -> {r.id, r.statement_id}
      [] by = "payments" -> {r.id, r.payment_id, r.payout_id}
      [] by = "settlements" -> {r.id, r.settlement_id}
      [] by = "distPayouts" -> {r.id}

TimeCandidates(by, r) ==
    CASE by = "statements" -> {r.statement_time, r.settle_time}
      [] by = "payments" -> {r.payment_time, r.create_time}
      [] by = "settlements" -> {r.settle_time}
      [] by = "distPayouts" -> {r.payment_time}

\* The value is absent, null, or not the text of a number.
NotANumber(v) == v.t \in {"undefined", "null"} \/ ParseFloat(v).t = "NaN"

\* A raw record with no usable identity key and no usable date.
Unparseable(by, r) ==
    /\ \A v \in IdCandidates(by, r) : v.t \in {"undefined", "null"} \/ v = Str(<<>>)
    /\ \A v \in TimeCandidates(by, r) : NotANumber(v)

\* A raw record with an identity key and a timestamp, and no field for the
\* date that is not a number.
WellFormed(by, r) ==
    /\ Truthy(r.id)
    /\ \E v \in TimeCandidates(by, r) : ~NotANumber(v) /\ Truthy(v)
    /\ \A v \in TimeCandidates(by, r) :
         v.t \in {"undefined", "null"} \/ (~NotANumber(v) /\ Truthy(v))

\* C24: of a list of raw statements or payouts in which every record is
\* either well formed or without usable identity key and date, the
\* normalizer returns the normalized well-formed records, in their order,
\* and nothing for the others; it does not throw and the run is not
\* aborted.
C24_UnparseableDropped ==
    (/\ rawBatch.by \in {"statements", "distPayouts"}
     /\ \A i \in 1..Len(rawBatch.records) :
          \/ Unparseable(rawBatch.by, rawBatch.records[i])
          \/ WellFormed(rawBatch.by, rawBatch.records[i]))
    => /\ ~normalized.threw
       /\ ~normalized.aborted
       /\ LET kept == SelectSeq(rawBatch.records,
                                LAMBDA r : WellFormed(rawBatch.by, r))
          IN normalized.records
               = [i \in 1..Len(kept) |-> MapRecord(rawBatch.by, kept[i]).record]

\* C25: the file changes only by the write of one of the two runs, and a
\* write puts into the file the state its run computed from the data that
\* run loaded and fetched, whatever the other run has written since; so
\* after both have written, the file is the state of the run that wrote
\* last.
C25_LastWriterWinsStep ==
    /\ file' # file =>
         \/ variant = "signed" /\ writes' = writes + 1
         \/ otherRun.pc = "loaded" /\ otherRun'.pc = "written"
    /\ (variant = "signed" /\ writes' = writes + 1) =>
         \/ file' = file
         \/ /\ file'.payouts = MergePayouts(existingData.payouts, settlements)
            /\ file'.distribution_payouts
                 = MergeDist(existingData.distribution_payouts, v2Statements,
                             v2Payments)
    /\ (otherRun.pc = "loaded" /\ otherRun'.pc = "written") =>
         /\ file' = otherRun'.updatedData
         /\ otherRun'.existingData = otherRun.existingData
         /\ file'.payouts = MergePayouts(otherRun.existingData.payouts,
                                         otherRun'.settlements)
         /\ file'.distribution_payouts
              = MergeDist(otherRun.existingData.distribution_payouts,
                          otherRun'.v2Statements, otherRun'.v2Payments)

C25_LastWriterWins == [][C25_LastWriterWinsStep]_vars

\* A lost update: both runs loaded the empty file; the second run wrote a
\* creator payout, then the first run wrote its distribution payouts, and
\* the creator payout is no longer in the file.
C25_Witness ==
    /\ variant = "signed" /\ RunEnded /\ writes = 1
    /\ otherRun.pc = "written"
    /\ existingData = EmptyData /\ otherRun.existingData = EmptyData
    /\ otherRun.updatedData.payouts # <<>>
    /\ file.distribution_payouts # <<>>
    /\ file.distribution_payouts
         = MergeDist(existingData.distribution_payouts, v2Statements, v2Payments)
    /\ file.payouts = <<>>

\* The distribution records a signed run made of its payments and of its
\* statements.
PaymentRecords == MapSeq(v2Payments.list, PaymentToDist)

StatementRecords == MapSeq(v2Statements.list, StatementToDist)

HasKey(records, k) == \E i \in 1..Len(records) : DistKey(records[i]) = k

\* C26: the distribution payouts a signed run writes hold, for every key
\* found among the payments, the statements and the persisted records,
\* exactly one record: the first payment with that key if there is one,
\* otherwise the first statement with it, otherwise the first persisted
\* record; and they hold no record with any other key.
C26_DistSourcePrecedence ==
    SignedRunWrote =>
        LET persisted == existingData.distribution_payouts
            keys == {DistKey(r) : r \in Range(PaymentRecords)
                                        \cup Range(StatementRecords)
                                        \cup Range(persisted)}
        IN /\ \A j \in 1..Len(distPayouts) : DistKey(distPayouts[j]) \in keys
           /\ \A k \in keys :
                /\ Cardinality({j \in 1..Len(distPayouts) :
                                  DistKey(distPayouts[j]) = k}) = 1
                /\ \A j \in 1..Len(distPayouts) :
                     DistKey(distPayouts[j]) = k =>
                       distPayouts[j]
                         = IF HasKey(PaymentRecords, k)
                           THEN FirstDist(PaymentRecords, k)
                           ELSE IF HasKey(StatementRecords, k)
                           THEN FirstDist(StatementRecords, k)
                           ELSE FirstDist(persisted, k)

\* A signed run has written after it fetched a payment and a statement and
\* loaded a persisted record that all have the same key and differ from one
\* another.
C26_Witness ==
    /\ SignedRunWrote
    /\ \E x \in Range(PaymentRecords), y \in Range(StatementRecords),
          z \in Range(existingData.distribution_payouts) :
          /\ DistKey(x) = DistKey(y) /\ DistKey(y) = DistKey(z)
          /\ x # y /\ y # z /\ x # z
          /\ x \in Range(distPayouts)

====
